---------------------------- MODULE Spec2Model ----------------------------
(***************************************************************************)
(* Model of the Node wrapper of ai-bangladesh-address-parser               *)
(* (src/api/node/index.ts, class AddressExtractor) and of the backend      *)
(* process it starts for every request.                                    *)
(*                                                                         *)
(* Numbers that are confidences or thresholds are kept in hundredths:      *)
(* 65 stands for 0.65, 100 for 1.0, -1 for a value below 0 and 101 for a   *)
(* value above 1.                                                          *)
(***************************************************************************)
EXTENDS Integers, Sequences, FiniteSets, TLC

VARIABLES
    heap,                  \* the threshold objects of the program, by reference
    confidenceThresholds,  \* AddressExtractor.confidenceThresholds: Null or a reference
    setArg,                \* the reference passed to the last setConfidenceThresholds
    setOutcome,            \* how the last setConfidenceThresholds ended
    getReturned,           \* what the last getConfidenceThresholds returned
    lastAccepted,          \* the reference of the last setConfidenceThresholds call that returned
    peerThresholds,        \* confidenceThresholds of a second AddressExtractor
    peerReturned           \* what the last getConfidenceThresholds of the second one returned

VARIABLES
    address,       \* the address of the current extract call
    timeoutMs,     \* the timeout of the current call, in milliseconds
    sent,          \* the --thresholds argument given to the backend process
    backend,       \* the process of the current call: "none", "running", "exited"
    reply,         \* what that process printed: "none" until it exits
    timer,         \* the timer of the current call: "none", "pending", "fired"
    promise,       \* the promise extract returned
    firstSettled,  \* which of the process and the timer settled the race first
    procCache,     \* the Result Cache in the memory of the process of the current call
    ranPipeline,   \* whether that process ran stages 3-9 for the request
    strayProcs,    \* processes of earlier calls that are still running
    strayTimers    \* timers of earlier calls that are still pending

VARIABLES
    configured,    \* the thresholds the extractor held when the current call was made
    prev           \* the request and the result of the last call that got a result

thrVars == <<heap, confidenceThresholds, setArg, setOutcome, getReturned,
             lastAccepted, peerThresholds, peerReturned>>

callVars == <<address, timeoutMs, sent, backend, reply, timer, promise,
              firstSettled, procCache, ranPipeline, strayProcs, strayTimers>>

VARIABLES
    addresses,     \* batchExtract: the array it was called with
    batchTimeout,  \* batchExtract: options.timeout
    onProgress,    \* batchExtract: options.onProgress: "absent", "returns", "throws"
    onError,       \* batchExtract: options.onError: "absent", "returns", "throws"
    batch,         \* the promise of batchExtract: "none", "running", "resolved", "rejected"
    idx,           \* batchExtract: the loop variable i
    results,       \* batchExtract: the array results
    settlements,   \* how the extract call of each address of the batch settled
    callbackLog    \* the calls of onProgress and onError, in order

VARIABLES
    served,        \* a long-lived backend process: its answer to the last request
    recent,        \* the keys that process accessed last, the latest at the end
    available,     \* the promise of isAvailable: "none", "pending", "true", "false", "rejected"
    candidates,    \* Conflict Resolver: the candidates it is given
    resolved,      \* Conflict Resolver: what it has built so far
    stage          \* Conflict Resolver: "none", "given", "resolved", "validated"

VARIABLES
    known,         \* predict_postal_code: the name known at each level of the hierarchy
    predicted,     \* predict_postal_code: <<>> before the call, then what it returned
    tokens,        \* FSM parser: the token stream, each token by its type
    fsmState,      \* FSM parser: its state, "none" when it does not run
    position,      \* FSM parser: the index of the next token
    emitted,       \* FSM parser: the candidates emitted so far
    reported,      \* findPython: what `cmd --version` gives for each of the commands
    cmdIndex,      \* findPython: the place of the loop in pythonCommands
    detected,      \* findPython: "none", "pending", then the command returned or null
    env,           \* postinstall: how each step of the script turns out on this machine
    pc,            \* postinstall: the step main is at
    exitStatus,    \* postinstall: "none", "running", then how main ended
    depsInstalled, \* postinstall: const depsInstalled of main
    stepsRun       \* postinstall: the steps main ran, in order

obsVars == <<configured, prev>>

geoVars == <<known, predicted>>

fsmVars == <<tokens, fsmState, position, emitted>>

pyVars == <<reported, cmdIndex, detected>>

postVars == <<env, pc, exitStatus, depsInstalled, stepsRun>>

toolVars == <<geoVars, fsmVars, pyVars, postVars>>

extVars == <<served, recent, available, candidates, resolved, stage, toolVars>>

batchVars == <<addresses, batchTimeout, onProgress, onError, batch, idx, results,
               settlements, callbackLog>>

vars == <<thrVars, callVars, obsVars, batchVars, extVars>>

-----------------------------------------------------------------------------
(* JavaScript values                                                       *)

\* The components a threshold object may name (two of the nine keys of
\* ConfidenceThresholds are enough to tell a whole map from a partial one).
Components == {"area", "postal_code"}

\* A JavaScript value: its type, and its number or its characters.
Undefined == [t |-> "undefined", n |-> 0, s |-> <<>>]
JsNull    == [t |-> "null", n |-> 0, s |-> <<>>]
NaN       == [t |-> "NaN", n |-> 0, s |-> <<>>]
Num(n)    == [t |-> "number", n |-> n, s |-> <<>>]
Str(s)    == [t |-> "string", n |-> 0, s |-> s]

\* The values a caller can put under a key of a threshold object: nothing,
\* NaN, a number below 0, the two ends of [0,1], a number inside, a number above 1.
ThresholdValues == {Undefined, NaN, Num(-1), Num(0), Num(50), Num(100), Num(101)}

ThresholdMaps == [Components -> ThresholdValues]

\* Thresholds an extract call starts from: none for a key, NaN, a number that
\* lets the found components through and one that lets none through.
StartingThresholdMaps == [Components -> {Undefined, NaN, Num(50), Num(100)}]

EmptyObject == [c \in Components |-> Undefined]

\* References to threshold objects; Null is JavaScript's null.
ObjIds == {"o1", "o2"}
Null == "null"

\* a < b and a > b of JavaScript on numbers: false as soon as one side is NaN.
JsLess(a, b) == a.t = "number" /\ b.t = "number" /\ a.n < b.n
JsGreater(a, b) == a.t = "number" /\ b.t = "number" /\ a.n > b.n

-----------------------------------------------------------------------------
(* setConfidenceThresholds / getConfidenceThresholds                       *)

\* The test of the validation loop on one entry of the object.
RejectsValue(value) ==
    value # Undefined /\ (JsLess(value, Num(0)) \/ JsGreater(value, Num(100)))

\* The validation loop throws as soon as one entry is rejected.
ValidationThrows(thresholds) ==
    \E key \in Components : RejectsValue(thresholds[key])

\* The thresholds the extractor holds, by value: what its reference points to
\* now (set is FALSE while the field is null).
Held ==
    IF confidenceThresholds = Null
    THEN [set |-> FALSE, map |-> EmptyObject]
    ELSE [set |-> TRUE, map |-> heap[confidenceThresholds]]

\* A mutant of AfterSetOnOther: the field is shared by all instances.
AfterSetOnOtherShared(current, o) == o

\* private confidenceThresholds is a field of the instance: the assignment in
\* setConfidenceThresholds of one extractor leaves the field of another as it is.
AfterSetOnOther(current, o) == current

\* setConfidenceThresholds(o): validate every entry, then keep the reference.
SetConfidenceThresholds(o) ==
    /\ setArg' = o
    /\ IF ValidationThrows(heap[o])
       THEN /\ setOutcome' = "threw"
            /\ UNCHANGED <<confidenceThresholds, lastAccepted, peerThresholds>>
       ELSE /\ setOutcome' = "returned"
            /\ confidenceThresholds' = o
            /\ lastAccepted' = o
            /\ peerThresholds' = AfterSetOnOther(peerThresholds, o)
    /\ UNCHANGED <<heap, getReturned, peerReturned, callVars, obsVars, batchVars, extVars>>

\* A mutant of GetConfidenceThresholds: null is returned whatever was set.
GetConfidenceThresholdsNull ==
    /\ getReturned' = Null
    /\ UNCHANGED <<heap, confidenceThresholds, setArg, setOutcome, lastAccepted,
                   peerThresholds, peerReturned, callVars, obsVars, batchVars, extVars>>

\* getConfidenceThresholds(): hand out the reference itself.
GetConfidenceThresholds ==
    /\ getReturned' = confidenceThresholds
    /\ UNCHANGED <<heap, confidenceThresholds, setArg, setOutcome, lastAccepted,
                   peerThresholds, peerReturned, callVars, obsVars, batchVars, extVars>>

\* The thresholds the second extractor holds, by value.
PeerHeld ==
    IF peerThresholds = Null
    THEN [set |-> FALSE, map |-> EmptyObject]
    ELSE [set |-> TRUE, map |-> heap[peerThresholds]]

\* setConfidenceThresholds(o) called on the second extractor.
PeerSetConfidenceThresholds(o) ==
    /\ IF ValidationThrows(heap[o])
       THEN UNCHANGED <<confidenceThresholds, peerThresholds>>
       ELSE /\ peerThresholds' = o
            /\ confidenceThresholds' = AfterSetOnOther(confidenceThresholds, o)
    /\ UNCHANGED <<heap, setArg, setOutcome, getReturned, lastAccepted, peerReturned,
                   callVars, obsVars, batchVars, extVars>>

\* getConfidenceThresholds() called on the second extractor.
PeerGetConfidenceThresholds ==
    /\ peerReturned' = peerThresholds
    /\ UNCHANGED <<heap, confidenceThresholds, setArg, setOutcome, getReturned,
                   lastAccepted, peerThresholds, callVars, obsVars, batchVars, extVars>>

\* The caller assigns to a key of an object it holds: one it built and passed
\* in, or the one getConfidenceThresholds handed back.
CallerMutate(o, key, value) ==
    /\ heap[o][key] # value
    /\ heap' = [heap EXCEPT ![o][key] = value]
    /\ UNCHANGED <<confidenceThresholds, setArg, setOutcome, getReturned, lastAccepted,
                   peerThresholds, peerReturned, callVars, obsVars, batchVars, extVars>>

-----------------------------------------------------------------------------
(* Strings and the inputs of extract                                       *)

\* The longest address string of the model.
MaxStrLen == 2

\* The characters of an address: a white-space character and a letter.
Chars == {" ", "a"}

Strings == UNION {[1..n -> Chars] : n \in 0..MaxStrLen}

\* What a caller may pass as the address: any string, or a value that is no string.
AddressValues == {Str(s) : s \in Strings} \cup {JsNull, Undefined, Num(0), Num(42)}

\* !!v of JavaScript.
Truthy(v) ==
    CASE v.t = "string" -> v.s # <<>>
      [] v.t = "number" -> v.n # 0
      [] OTHER -> FALSE

RECURSIVE TrimStart(_)
TrimStart(s) ==
    IF s # <<>> /\ Head(s) = " " THEN TrimStart(Tail(s)) ELSE s

RECURSIVE TrimEnd(_)
TrimEnd(s) ==
    IF s # <<>> /\ s[Len(s)] = " " THEN TrimEnd(SubSeq(s, 1, Len(s) - 1)) ELSE s

\* String.prototype.trim
Trim(s) == TrimEnd(TrimStart(s))

\* A mutant of ShortCircuits: the address is not trimmed before the test.
ShortCircuitsNoTrim(addr) ==
    ~Truthy(addr) \/ addr.t # "string"

\* The guard of extract: !address || typeof address !== 'string' || !address.trim()
ShortCircuits(addr) ==
    ~Truthy(addr) \/ addr.t # "string" \/ ~Truthy(Str(Trim(addr.s)))

NoComponents == [c \in {} |-> 0]

\* emptyResult(address)
emptyResult(addr) ==
    [components |-> NoComponents,
     overall_confidence |-> 0,
     extraction_time_ms |-> 0,
     normalized_address |-> <<>>,
     original_address |-> addr,
     cached |-> "absent"]

\* address || ''
OrEmptyString(addr) == IF Truthy(addr) THEN addr ELSE Str(<<>>)

\* The timeout option of a call: left out, 0, or 5000 ms.
TimeoutOptions == {Undefined, Num(0), Num(5000)}

DefaultTimeout == 30000

\* options.timeout || 30000
EffectiveTimeout(option) == IF Truthy(option) THEN option.n ELSE DefaultTimeout

\* A mutant of JsonStringify: a key whose value is falsy (0 as well as
\* undefined and NaN) is left out.
JsonStringifyDropsFalsy(thresholds) ==
    [c \in Components |-> IF Truthy(thresholds[c]) THEN thresholds[c] ELSE Undefined]

\* JSON.stringify of a threshold object: a key whose value is undefined is left
\* out, NaN is written as null, a number is written as it is.
JsonStringify(thresholds) ==
    [c \in Components |-> IF thresholds[c] = NaN THEN JsNull ELSE thresholds[c]]

NoThresholdsArg == [present |-> FALSE, json |-> EmptyObject]

\* A mutant of ThresholdsArg: the thresholds are never passed on.
ThresholdsArgNeverPassed == NoThresholdsArg

\* if (this.confidenceThresholds) args.push('--thresholds', JSON.stringify(...))
ThresholdsArg ==
    IF confidenceThresholds # Null
    THEN [present |-> TRUE, json |-> JsonStringify(heap[confidenceThresholds])]
    ELSE NoThresholdsArg

-----------------------------------------------------------------------------
(* The backend process (api/python/extract.py and the pipeline behind it)  *)

RECURSIVE CollapseSpaces(_)
CollapseSpaces(s) ==
    IF Len(s) < 2 THEN s
    ELSE IF s[1] = " " /\ s[2] = " " THEN CollapseSpaces(Tail(s))
    ELSE <<Head(s)>> \o CollapseSpaces(Tail(s))

\* The Canonical Normalizer, as far as these characters go: runs of white
\* space collapsed, the ends trimmed.
Normalize(s) == Trim(CollapseSpaces(s))

RECURSIVE Letters(_)
Letters(s) ==
    IF s = <<>> THEN 0 ELSE (IF Head(s) = " " THEN 0 ELSE 1) + Letters(Tail(s))

\* Stages 3-8 on a normalized address: the confidence of each component, 0 for
\* a component that was not found. A fixed function of the text.
RawConfidence(norm, c) ==
    CASE Letters(norm) = 1 -> IF c = "area" THEN 60 ELSE 90
      [] Letters(norm) = 2 -> IF c = "area" THEN 85 ELSE 0
      [] OTHER -> IF c = "area" THEN 70 ELSE 75

\* The default thresholds of the backend.
DefaultAreaThreshold == 65
DefaultPostalThreshold == 80
DefaultThreshold(c) == IF c = "area" THEN DefaultAreaThreshold ELSE DefaultPostalThreshold

\* The threshold the Result Formatter applies to a component: the number the
\* request carries for it, the default when it carries none.
AppliedThreshold(arg, c) ==
    IF arg.present /\ arg.json[c].t = "number" THEN arg.json[c].n ELSE DefaultThreshold(c)

\* The filter of the Result Formatter on one component.
Passes(confidence, threshold) == confidence > 0 /\ confidence >= threshold

\* Stages 1-9 on one request: the result the pipeline builds.
PipelineResult(addr, arg) ==
    LET norm == Normalize(addr.s)
        kept == {c \in Components : Passes(RawConfidence(norm, c), AppliedThreshold(arg, c))}
    IN  [components |-> [c \in kept |-> RawConfidence(norm, c)],
         overall_confidence |->
             (RawConfidence(norm, "area") + RawConfidence(norm, "postal_code")) \div 2,
         extraction_time_ms |-> 20,
         normalized_address |-> norm,
         original_address |-> addr,
         cached |-> "false"]

\* The number of entries the Result Cache keeps.
CacheCapacity == 2

\* A mutant of CacheKey: the thresholds are no part of the key.
CacheKeyWithoutThresholds(addr, arg) == <<Normalize(addr.s), NoThresholdsArg>>

\* Key = (normalized_address, serialized active thresholds)
CacheKey(addr, arg) == <<Normalize(addr.s), arg>>

CacheHas(cache, key) == \E i \in 1..Len(cache) : cache[i].key = key

CacheIndex(cache, key) == CHOOSE i \in 1..Len(cache) : cache[i].key = key

Without(cache, i) == SubSeq(cache, 1, i - 1) \o SubSeq(cache, i + 1, Len(cache))

\* A mutant of CacheTouch: a hit does not count as an access.
CacheTouchKeepsOrder(cache, key) == cache

\* get: the entry becomes the most recently used one (the last of the sequence).
CacheTouch(cache, key) ==
    LET i == CacheIndex(cache, key) IN Without(cache, i) \o <<cache[i]>>

\* put: the entry is the most recently used one; the least recently used one
\* goes when the capacity is exceeded.
CachePut(cache, key, value) ==
    LET rest == IF CacheHas(cache, key) THEN Without(cache, CacheIndex(cache, key)) ELSE cache
        all == rest \o <<[key |-> key, value |-> value]>>
    IN  IF Len(all) > CacheCapacity THEN Tail(all) ELSE all

\* The answer of a backend process to one request: the stored result, marked
\* cached, on a hit; the result of the pipeline otherwise.
BackendAnswer(cache, addr, arg) ==
    LET key == CacheKey(addr, arg) IN
    IF CacheHas(cache, key)
    THEN [cache[CacheIndex(cache, key)].value EXCEPT
             !.cached = "true", !.extraction_time_ms = 0]
    ELSE PipelineResult(addr, arg)

-----------------------------------------------------------------------------
(* The Conflict Resolver of the backend (stage 8)                          *)

ResolverComponents == {"district", "division", "postal_code"}

\* The order in which the resolver goes through the components.
ComponentOrder == <<"district", "division", "postal_code">>

Sources == {"STRUCTURAL", "PATTERN", "NER", "GAZETTEER", "GEO_HIERARCHY"}

\* The fixed prior of each source, in hundredths.
WeightStructural == 70
WeightPattern == 85
WeightNer == 90
WeightGazetteer == 98
WeightGeoHierarchy == 95

SourceWeight(source) ==
    CASE source = "STRUCTURAL" -> WeightStructural
      [] source = "PATTERN" -> WeightPattern
      [] source = "NER" -> WeightNer
      [] source = "GAZETTEER" -> WeightGazetteer
      [] source = "GEO_HIERARCHY" -> WeightGeoHierarchy

\* The geographic knowledge base, as far as these places go.
Districts == {"Dhaka", "Chattogram"}
DivisionOf(district) == IF district = "Dhaka" THEN "Dhaka Division" ELSE "Chattogram Division"
PostalCodes == {"1216", "4219"}
DistrictOfPostal(code) == IF code = "1216" THEN "Dhaka" ELSE "Chattogram"
PostalOfDistrict(district) == IF district = "Dhaka" THEN "1216" ELSE "4219"

\* The value of a component that is not set.
Unset == ""

Max(numbers) == CHOOSE n \in numbers : \A m \in numbers : m <= n

\* The candidates of one component, and of one value of it.
CandidatesFor(cands, c) == {k \in cands : k.component = c}
ValuesFor(cands, c) == {k.value : k \in CandidatesFor(cands, c)}
Proposing(cands, c, v) == {k \in CandidatesFor(cands, c) : k.value = v}
SourcesOf(cands, c, v) == {k.source : k \in Proposing(cands, c, v)}

\* Step 3: the weight of the source times the candidate's own confidence.
CandidateScore(k) == (SourceWeight(k.source) * k.confidence) \div 100

BaseScore(cands, c, v) == Max({CandidateScore(k) : k \in Proposing(cands, c, v)})

\* Step 4: what each further source that proposes the same value adds.
BoostStep == 5
AgreementBoost(agreeing) == BoostStep * (agreeing - 1)

\* A mutant of Capped: the boosted score is left as it is.
Uncapped(score) == score

\* The boosted score never exceeds 1.0.
Capped(score) == IF score > 100 THEN 100 ELSE score

AggregateScore(cands, c, v) ==
    Capped(BaseScore(cands, c, v) + AgreementBoost(Cardinality(SourcesOf(cands, c, v))))

\* The highest prior among the sources of a value.
BestWeight(cands, c, v) == Max({SourceWeight(src) : src \in SourcesOf(cands, c, v)})

\* Steps 5 and 6: the two best values of a component by aggregate score.
TopValue(cands, c) ==
    CHOOSE v \in ValuesFor(cands, c) :
        \A u \in ValuesFor(cands, c) : AggregateScore(cands, c, u) <= AggregateScore(cands, c, v)

SecondValue(cands, c) ==
    LET others == ValuesFor(cands, c) \ {TopValue(cands, c)}
    IN  CHOOSE v \in others :
            \A u \in others : AggregateScore(cands, c, u) <= AggregateScore(cands, c, v)

\* Two scores this close are a near-tie.
Epsilon == 5

NearTie(cands, c) ==
    /\ Cardinality(ValuesFor(cands, c)) >= 2
    /\ AggregateScore(cands, c, TopValue(cands, c))
         - AggregateScore(cands, c, SecondValue(cands, c)) <= Epsilon

\* A mutant of PreferredOfTwo: the value of the lower source weight is taken.
PreferredOfTwoLowerWeight(cands, c, first, second) ==
    IF BestWeight(cands, c, second) < BestWeight(cands, c, first) THEN second ELSE first

\* Of two near-tied values the one of the higher source weight is taken.
PreferredOfTwo(cands, c, first, second) ==
    IF BestWeight(cands, c, second) > BestWeight(cands, c, first) THEN second ELSE first

Winner(cands, c) ==
    IF NearTie(cands, c)
    THEN PreferredOfTwo(cands, c, TopValue(cands, c), SecondValue(cands, c))
    ELSE TopValue(cands, c)

\* The description of a near-tie: both values and the sources of both.
NearTieConflict(cands, c) ==
    [kind |-> "near-tie",
     about |-> {c},
     values |-> {TopValue(cands, c), SecondValue(cands, c)},
     sources |-> SourcesOf(cands, c, TopValue(cands, c))
                   \cup SourcesOf(cands, c, SecondValue(cands, c))]

\* predict_postal_code with the district alone known: the district-level fallback.
DistrictLevelConfidence == 60

\* Step 2: a component without candidates is inferred from the district the
\* candidates give, as a candidate of the geographic hierarchy.
Inferred(cands) ==
    IF ValuesFor(cands, "district") = {} THEN {}
    ELSE LET district == Winner(cands, "district")
         IN  (IF ValuesFor(cands, "division") = {}
              THEN {[component |-> "division", value |-> DivisionOf(district),
                     confidence |-> AggregateScore(cands, "district", district),
                     source |-> "GEO_HIERARCHY"]}
              ELSE {})
             \cup
             (IF ValuesFor(cands, "postal_code") = {}
              THEN {[component |-> "postal_code", value |-> PostalOfDistrict(district),
                     confidence |-> DistrictLevelConfidence,
                     source |-> "GEO_HIERARCHY"]}
              ELSE {})

\* Step 8: the weighted average of the confidences of the components.
Importance(c) == IF c = "division" THEN 2 ELSE 3

RECURSIVE WeightedSum(_, _)
WeightedSum(confidence, order) ==
    IF order = <<>> THEN 0
    ELSE Importance(Head(order)) * confidence[Head(order)] + WeightedSum(confidence, Tail(order))

RECURSIVE ImportanceSum(_)
ImportanceSum(order) ==
    IF order = <<>> THEN 0 ELSE Importance(Head(order)) + ImportanceSum(Tail(order))

\* A mutant of OverallConfidence: the average of the components found, and
\* full confidence when there is none.
OverallConfidenceOfFound(confidence) ==
    LET found == SelectSeq(ComponentOrder, LAMBDA c : confidence[c] > 0)
    IN  IF found = <<>> THEN 100
        ELSE WeightedSum(confidence, found) \div ImportanceSum(found)

OverallConfidence(confidence) ==
    WeightedSum(confidence, ComponentOrder) \div ImportanceSum(ComponentOrder)

RECURSIVE NearTieConflicts(_, _)
NearTieConflicts(cands, order) ==
    IF order = <<>> THEN <<>>
    ELSE (IF NearTie(cands, Head(order)) THEN <<NearTieConflict(cands, Head(order))>> ELSE <<>>)
             \o NearTieConflicts(cands, Tail(order))

\* resolve(candidates), steps 1 to 6 and 8.
Resolution(given) ==
    LET cands == given \cup Inferred(given)
        set(c) == ValuesFor(cands, c) # {}
        confidence == [c \in ResolverComponents |->
                          IF set(c) THEN AggregateScore(cands, c, Winner(cands, c)) ELSE 0]
    IN  [values |-> [c \in ResolverComponents |-> IF set(c) THEN Winner(cands, c) ELSE Unset],
         confidence |-> confidence,
         conflicts |-> NearTieConflicts(cands, ComponentOrder),
         overall |-> OverallConfidence(confidence)]

\* validate_consistency(components): the district the postal code implies
\* against the district, the division the district implies against the division.
ValidateConsistency(values) ==
    (IF /\ values["postal_code"] # Unset
        /\ values["district"] # Unset
        /\ DistrictOfPostal(values["postal_code"]) # values["district"]
     THEN <<[kind |-> "geographic",
             about |-> {"postal_code", "district"},
             values |-> {values["district"], DistrictOfPostal(values["postal_code"])},
             sources |-> {"GEO_HIERARCHY"}]>>
     ELSE <<>>)
    \o
    (IF /\ values["district"] # Unset
        /\ values["division"] # Unset
        /\ DivisionOf(values["district"]) # values["division"]
     THEN <<[kind |-> "geographic",
             about |-> {"district", "division"},
             values |-> {values["division"], DivisionOf(values["district"])},
             sources |-> {"GEO_HIERARCHY"}]>>
     ELSE <<>>)

\* A mutant of AfterValidation: the contradicted components are taken back.
AfterValidationRetracts(values, found) ==
    [c \in ResolverComponents |->
        IF \E i \in 1..Len(found) : c \in found[i].about THEN Unset ELSE values[c]]

\* Step 7 only annotates: the values chosen stay as they are.
AfterValidation(values, found) == values

\* What a geographic contradiction takes from the confidence of a component.
GeoPenalty == 10

\* Conflicting geographic evidence degrades the confidence of the components it is about.
Degraded(confidence, found) ==
    [c \in ResolverComponents |->
        IF \E i \in 1..Len(found) : c \in found[i].about
        THEN (IF confidence[c] > GeoPenalty THEN confidence[c] - GeoPenalty ELSE 0)
        ELSE confidence[c]]

NoResolution ==
    [values |-> [c \in ResolverComponents |-> Unset],
     confidence |-> [c \in ResolverComponents |-> 0],
     conflicts |-> <<>>,
     overall |-> 0]

\* resolve, up to step 6, with the overall confidence of step 8.
Resolve ==
    /\ stage = "given"
    /\ stage' = "resolved"
    /\ resolved' = Resolution(candidates)
    /\ UNCHANGED <<thrVars, callVars, obsVars, batchVars, served, recent, available,
                   candidates, toolVars>>

\* resolve, step 7: validate_consistency over the resolved components.
Validate ==
    /\ stage = "resolved"
    /\ stage' = "validated"
    /\ LET found == ValidateConsistency(resolved.values)
           confidence == Degraded(resolved.confidence, found)
       IN  resolved' = [values |-> AfterValidation(resolved.values, found),
                        confidence |-> confidence,
                        conflicts |-> resolved.conflicts \o found,
                        overall |-> OverallConfidence(confidence)]
    /\ UNCHANGED <<thrVars, callVars, obsVars, batchVars, served, recent, available,
                   candidates, toolVars>>

-----------------------------------------------------------------------------
(* predict_postal_code of the Geographic Knowledge Base                    *)

\* A mutant of LevelOrder: the district is tried first.
LevelOrderDistrictFirst == <<"district", "upazila", "union", "village">>

\* The levels predict_postal_code tries, in its order.
LevelOrder == <<"upazila", "union", "village", "district">>

Levels == {"upazila", "union", "village", "district"}

UpazilaConfidence == 95
UnionConfidence == 90
VillageConfidence == 85

LevelConfidence(level) ==
    CASE level = "upazila" -> UpazilaConfidence
      [] level = "union" -> UnionConfidence
      [] level = "village" -> VillageConfidence
      [] level = "district" -> DistrictLevelConfidence

\* The nodes of the hierarchy that carry a postal code: at every level one
\* name of a single node and one name that two nodes of different postal
\* codes share; "Pirganj" is the name of no node.
GeoNodes ==
    {[level |-> "upazila", name |-> "Mirpur", postal_code |-> "1216"],
     [level |-> "upazila", name |-> "Shibpur", postal_code |-> "1620"],
     [level |-> "upazila", name |-> "Shibpur", postal_code |-> "5800"],
     [level |-> "union", name |-> "Pallabi", postal_code |-> "1221"],
     [level |-> "union", name |-> "Rampur", postal_code |-> "3500"],
     [level |-> "union", name |-> "Rampur", postal_code |-> "6400"],
     [level |-> "village", name |-> "Rupnagar", postal_code |-> "1217"],
     [level |-> "village", name |-> "Char", postal_code |-> "8200"],
     [level |-> "village", name |-> "Char", postal_code |-> "2200"],
     [level |-> "district", name |-> "Dhaka", postal_code |-> "1000"],
     [level |-> "district", name |-> "Nawabganj", postal_code |-> "1320"],
     [level |-> "district", name |-> "Nawabganj", postal_code |-> "6300"]}

\* The names a caller can know at a level; Unset when it knows none.
KnownNames(level) == {node.name : node \in {n \in GeoNodes : n.level = level}} \cup {"Pirganj", Unset}

NothingKnown == [level \in Levels |-> Unset]

\* The postal codes of the nodes of a level that match the name known there.
CodesAt(level, components) ==
    {node.postal_code : node \in {n \in GeoNodes : n.level = level /\ n.name = components[level]}}

NoPrediction == [postal_code |-> Unset, confidence |-> 0, level |-> "none"]

\* The walk over the levels: the first one that yields a unique postal code.
RECURSIVE FirstUnique(_, _)
FirstUnique(order, components) ==
    IF order = <<>> THEN NoPrediction
    ELSE IF Cardinality(CodesAt(Head(order), components)) = 1
         THEN [postal_code |-> CHOOSE code \in CodesAt(Head(order), components) : TRUE,
               confidence |-> LevelConfidence(Head(order)),
               level |-> Head(order)]
         ELSE FirstUnique(Tail(order), components)

\* predict_postal_code(known_components)
PredictPostalCode ==
    /\ predicted = <<>>
    /\ predicted' = <<FirstUnique(LevelOrder, known)>>
    /\ UNCHANGED <<thrVars, callVars, obsVars, batchVars, served, recent, available,
                   candidates, resolved, stage, known, fsmVars, pyVars, postVars>>

-----------------------------------------------------------------------------
(* The structural (FSM) parser, stage 4                                    *)

FsmStates == <<"START", "EXPECT_HOUSE", "EXPECT_ROAD", "EXPECT_AREA", "EXPECT_DISTRICT",
               "EXPECT_POSTAL", "END">>

ExpectStates == {"EXPECT_HOUSE", "EXPECT_ROAD", "EXPECT_AREA", "EXPECT_DISTRICT",
                 "EXPECT_POSTAL"}

\* The types of the tokens of a stream; "other" is a token no state expects.
TokenTypes == {"house", "road", "area", "district", "postal", "other"}

\* The component a state expects.
Expected(state) ==
    CASE state = "EXPECT_HOUSE" -> "house"
      [] state = "EXPECT_ROAD" -> "road"
      [] state = "EXPECT_AREA" -> "area"
      [] state = "EXPECT_DISTRICT" -> "district"
      [] state = "EXPECT_POSTAL" -> "postal"

StateIndex(state) == CHOOSE i \in 1..Len(FsmStates) : FsmStates[i] = state

\* The state after a state.
Advance(state) == FsmStates[StateIndex(state) + 1]

\* The confidence of the candidates of the parser.
StructuralConfidence == 70

\* A mutant of AfterUnrecognized: the parser starts over.
AfterUnrecognizedRestarts(state) == "START"

\* An unrecognized token does not consume the state.
AfterUnrecognized(state) == state

\* The parser is started on the stream.
FsmStart ==
    /\ fsmState = "START"
    /\ fsmState' = "EXPECT_HOUSE"
    /\ position' = 1
    /\ UNCHANGED <<thrVars, callVars, obsVars, batchVars, served, recent, available,
                   candidates, resolved, stage, geoVars, tokens, emitted, pyVars, postVars>>

\* One token: consumed as a candidate by the state that expects it, skipped otherwise.
FsmToken ==
    /\ fsmState \in ExpectStates
    /\ position <= Len(tokens)
    /\ IF tokens[position] = Expected(fsmState)
       THEN /\ emitted' = Append(emitted, [component |-> tokens[position],
                                            value |-> position,
                                            confidence |-> StructuralConfidence,
                                            source |-> "STRUCTURAL"])
            /\ fsmState' = Advance(fsmState)
       ELSE /\ emitted' = emitted
            /\ fsmState' = AfterUnrecognized(fsmState)
    /\ position' = position + 1
    /\ UNCHANGED <<thrVars, callVars, obsVars, batchVars, served, recent, available,
                   candidates, resolved, stage, geoVars, tokens, pyVars, postVars>>

\* The end of the token stream.
FsmEndOfStream ==
    /\ fsmState \in ExpectStates
    /\ position > Len(tokens)
    /\ fsmState' = "END"
    /\ UNCHANGED <<thrVars, callVars, obsVars, batchVars, served, recent, available,
                   candidates, resolved, stage, geoVars, tokens, position, emitted, pyVars,
                   postVars>>

-----------------------------------------------------------------------------
(* findPython (index.ts and tools/postinstall.js, the same code)           *)

\* const pythonCommands = ['python3', 'python', 'py']
PythonCommands == <<"python3", "python", "py">>

\* What execSync(`${cmd} --version`) can give: it throws, it returns text in
\* which /(\d+)\.(\d+)/ finds nothing, or text with a version major.minor.
NoVersion == [kind |-> "throws", major |-> 0, minor |-> 0]

Reports ==
    {NoVersion, [kind |-> "nomatch", major |-> 0, minor |-> 0]}
    \cup [kind : {"version"}, major : {2, 3, 4}, minor : {0, 8, 9, 10}]

\* if (major >= 3 && minor >= 9)
Qualifies(report) ==
    /\ report.kind = "version"
    /\ report.major >= 3 /\ report.minor >= 9

\* One turn of the for loop over pythonCommands.
FindPythonTry ==
    /\ detected = "pending"
    /\ cmdIndex <= Len(PythonCommands)
    /\ IF Qualifies(reported[cmdIndex])
       THEN detected' = PythonCommands[cmdIndex] /\ cmdIndex' = cmdIndex
       ELSE detected' = detected /\ cmdIndex' = cmdIndex + 1
    /\ UNCHANGED <<thrVars, callVars, obsVars, batchVars, served, recent, available,
                   candidates, resolved, stage, geoVars, fsmVars, reported, postVars>>

\* The loop is over: return null.
FindPythonReturnsNull ==
    /\ detected = "pending"
    /\ cmdIndex > Len(PythonCommands)
    /\ detected' = Null
    /\ UNCHANGED <<thrVars, callVars, obsVars, batchVars, served, recent, available,
                   candidates, resolved, stage, geoVars, fsmVars, reported, cmdIndex,
                   postVars>>

-----------------------------------------------------------------------------
(* tools/postinstall.js                                                    *)

\* How the steps of the script can turn out on a machine: findPython finds a
\* command or not, requirements.txt is there or not, each execSync returns
\* or throws; the installation can throw with a message about a permission.
Environments ==
    [python : {"found", "missing"},
     requirements : {"present", "missing"},
     pipUpgrade : {"ok", "throws"},
     install : {"ok", "permission", "throws"},
     userInstall : {"ok", "throws"},
     spacyImport : {"ok", "throws"},
     download : {"ok", "throws"},
     verify : {"ok", "throws"}]

\* A mutant of RetryThrows: the error of the second installation leaves main.
RetryThrowsUncaught(status) == "threw"

\* The second installation throws inside the outer try of installDependencies:
\* its catch returns false and main goes on.
RetryThrows(status) == status

\* main: const pythonCmd = findPython(); process.exit(0) without Python.
PostFindPython ==
    /\ pc = "findPython"
    /\ stepsRun' = Append(stepsRun, "findPython")
    /\ IF env.python = "missing"
       THEN pc' = "done" /\ exitStatus' = "exit 0"
       ELSE pc' = "requirements" /\ exitStatus' = exitStatus
    /\ depsInstalled' = depsInstalled
    /\ UNCHANGED <<thrVars, callVars, obsVars, batchVars, served, recent, available,
                   candidates, resolved, stage, geoVars, fsmVars, pyVars, env>>

\* installDependencies: fs.existsSync(REQUIREMENTS_FILE)
PostRequirements ==
    /\ pc = "requirements"
    /\ stepsRun' = Append(stepsRun, "requirements")
    /\ pc' = IF env.requirements = "missing" THEN "report" ELSE "pipUpgrade"
    /\ depsInstalled' = FALSE
    /\ exitStatus' = exitStatus
    /\ UNCHANGED <<thrVars, callVars, obsVars, batchVars, served, recent, available,
                   candidates, resolved, stage, geoVars, fsmVars, pyVars, env>>

\* installDependencies: pip install --upgrade pip, its error ignored.
PostPipUpgrade ==
    /\ pc = "pipUpgrade"
    /\ stepsRun' = Append(stepsRun, "pipUpgrade")
    /\ pc' = "install"
    /\ UNCHANGED <<depsInstalled, exitStatus>>
    /\ UNCHANGED <<thrVars, callVars, obsVars, batchVars, served, recent, available,
                   candidates, resolved, stage, geoVars, fsmVars, pyVars, env>>

\* installDependencies: pip install -r requirements.txt
PostInstall ==
    /\ pc = "install"
    /\ stepsRun' = Append(stepsRun, "install")
    /\ pc' = CASE env.install = "ok" -> "download"
               [] env.install = "permission" -> "userInstall"
               [] env.install = "throws" -> "report"
    /\ depsInstalled' = (env.install = "ok")
    /\ exitStatus' = exitStatus
    /\ UNCHANGED <<thrVars, callVars, obsVars, batchVars, served, recent, available,
                   candidates, resolved, stage, geoVars, fsmVars, pyVars, env>>

\* installDependencies: the installation again with --user.
PostUserInstall ==
    /\ pc = "userInstall"
    /\ stepsRun' = Append(stepsRun, "userInstall")
    /\ IF env.userInstall = "ok"
       THEN pc' = "download" /\ depsInstalled' = TRUE /\ exitStatus' = exitStatus
       ELSE /\ exitStatus' = RetryThrows(exitStatus)
            /\ pc' = IF exitStatus' = "threw" THEN "done" ELSE "report"
            /\ depsInstalled' = FALSE
    /\ UNCHANGED <<thrVars, callVars, obsVars, batchVars, served, recent, available,
                   candidates, resolved, stage, geoVars, fsmVars, pyVars, env>>

\* downloadSpacyModel: always true, whatever throws.
PostDownload ==
    /\ pc = "download"
    /\ stepsRun' = Append(stepsRun, "download")
    /\ pc' = "verify"
    /\ UNCHANGED <<depsInstalled, exitStatus>>
    /\ UNCHANGED <<thrVars, callVars, obsVars, batchVars, served, recent, available,
                   candidates, resolved, stage, geoVars, fsmVars, pyVars, env>>

\* verifyInstallation: true or false, whatever throws.
PostVerify ==
    /\ pc = "verify"
    /\ stepsRun' = Append(stepsRun, "verify")
    /\ pc' = "report"
    /\ UNCHANGED <<depsInstalled, exitStatus>>
    /\ UNCHANGED <<thrVars, callVars, obsVars, batchVars, served, recent, available,
                   candidates, resolved, stage, geoVars, fsmVars, pyVars, env>>

\* main: the messages at its end; main returns.
PostReport ==
    /\ pc = "report"
    /\ stepsRun' = Append(stepsRun, "report")
    /\ pc' = "done"
    /\ exitStatus' = "returned"
    /\ depsInstalled' = depsInstalled
    /\ UNCHANGED <<thrVars, callVars, obsVars, batchVars, served, recent, available,
                   candidates, resolved, stage, geoVars, fsmVars, pyVars, env>>

-----------------------------------------------------------------------------
(* extract and _runPythonScript                                            *)

\* How a process can end: with a JSON object on its output, with no output,
\* with output that holds no JSON object, with a JSON object that does not
\* parse, or with an error of the process itself.
Replies == {"json", "empty", "nojson", "badjson", "crash"}

NoValue == emptyResult(Undefined)
NoError == [kind |-> "none", message |-> <<>>, ms |-> 0]

NoPromise == [state |-> "none", value |-> NoValue, error |-> NoError]
Pending   == [state |-> "pending", value |-> NoValue, error |-> NoError]
Fulfilled(value) == [state |-> "fulfilled", value |-> value, error |-> NoError]
Rejected(error)  == [state |-> "rejected", value |-> NoValue, error |-> error]

\* String(parseError): the text of the SyntaxError JSON.parse threw.
JsonParseErrorText == "SyntaxError of JSON.parse"

\* The message of the error the .then handler throws, or PythonShell.run
\* rejects with, on a reply that is no result.
ReplyError(r) ==
    CASE r = "empty" -> <<"No results returned from Python script">>
      [] r = "nojson" -> <<"No JSON found in Python output">>
      [] r = "badjson" -> <<"Failed to parse Python result: ", JsonParseErrorText>>
      [] OTHER -> <<"error of the python process">>

\* extractionPromise: PythonShell.run(...).then(parse).catch(wrap)
ExtractionPromise(r, answer) ==
    IF r = "json"
    THEN Fulfilled(answer)
    ELSE Rejected([kind |-> "backend",
                   message |-> <<"Python execution error: ">> \o ReplyError(r),
                   ms |-> 0])

\* The promise of the timer: rejects when the timer fires.
TimerPromise(ms) ==
    Rejected([kind |-> "timeout",
              message |-> <<"Operation timed out after ", "ms">>,
              ms |-> ms])

\* try { return await ... } catch (error) { throw new Error('Address extraction failed: ' + ...) }
ExtractSettles(p) ==
    IF p.state = "rejected"
    THEN Rejected([p.error EXCEPT !.message = <<"Address extraction failed: ">> \o @])
    ELSE p

\* A mutant of RaceSettle: whoever settles last decides.
RaceSettleLastWins(current, settled) == settled

\* Promise.race: the first of the two to settle decides, the other is ignored.
RaceSettle(current, settled) ==
    IF current.state = "pending" THEN settled ELSE current

\* The most processes and timers of earlier calls the model lets linger.
MaxStray == 1

\* extract(addr, {timeout: option}): an empty result at once for an input that
\* short-circuits; otherwise a process and a timer are started.
CallExtract(addr, option) ==
    /\ promise.state # "pending"
    /\ strayProcs + (IF backend = "running" THEN 1 ELSE 0) <= MaxStray
    /\ strayTimers + (IF timer = "pending" THEN 1 ELSE 0) <= MaxStray
    /\ address' = addr
    /\ strayProcs' = strayProcs + (IF backend = "running" THEN 1 ELSE 0)
    /\ strayTimers' = strayTimers + (IF timer = "pending" THEN 1 ELSE 0)
    /\ reply' = "none"
    /\ firstSettled' = "none"
    /\ ranPipeline' = FALSE
    /\ procCache' = <<>>
    /\ IF ShortCircuits(addr)
       THEN /\ promise' = Fulfilled(emptyResult(OrEmptyString(addr)))
            /\ backend' = "none"
            /\ timer' = "none"
            /\ sent' = NoThresholdsArg
            /\ timeoutMs' = 0
       ELSE /\ promise' = Pending
            /\ backend' = "running"
            /\ timer' = "pending"
            /\ sent' = ThresholdsArg
            /\ timeoutMs' = EffectiveTimeout(option)
    /\ UNCHANGED thrVars

\* The process of the current call ends with reply r. On "json" it has looked
\* the request up in its cache and run the pipeline on a miss.
BackendExit(r) ==
    /\ backend = "running"
    /\ backend' = "exited"
    /\ reply' = r
    /\ LET key == CacheKey(address, sent)
           answer == BackendAnswer(procCache, address, sent)
       IN  /\ ranPipeline' = (r = "json" /\ ~CacheHas(procCache, key))
           /\ procCache' = IF r # "json" THEN procCache
                           ELSE IF CacheHas(procCache, key) THEN CacheTouch(procCache, key)
                           ELSE CachePut(procCache, key, answer)
           /\ promise' = RaceSettle(promise, ExtractSettles(ExtractionPromise(r, answer)))
    /\ firstSettled' = IF firstSettled = "none" THEN "backend" ELSE firstSettled
    /\ UNCHANGED <<thrVars, address, timeoutMs, sent, timer, strayProcs, strayTimers>>

\* The timer of the current call fires.
TimerFire ==
    /\ timer = "pending"
    /\ timer' = "fired"
    /\ promise' = RaceSettle(promise, ExtractSettles(TimerPromise(timeoutMs)))
    /\ firstSettled' = IF firstSettled = "none" THEN "timer" ELSE firstSettled
    /\ UNCHANGED <<thrVars, address, timeoutMs, sent, backend, reply, procCache,
                   ranPipeline, strayProcs, strayTimers>>

\* A process of an earlier call ends: nobody listens any more.
StrayProcExit ==
    /\ strayProcs > 0
    /\ strayProcs' = strayProcs - 1
    /\ UNCHANGED <<thrVars, address, timeoutMs, sent, backend, reply, timer, promise,
                   firstSettled, procCache, ranPipeline, strayTimers>>

\* A timer of an earlier call fires: its race is settled already.
StrayTimerFire ==
    /\ strayTimers > 0
    /\ strayTimers' = strayTimers - 1
    /\ UNCHANGED <<thrVars, address, timeoutMs, sent, backend, reply, timer, promise,
                   firstSettled, procCache, ranPipeline, strayProcs>>

-----------------------------------------------------------------------------
(* isAvailable                                                             *)

\* The address of the probe.
ProbeAddress == Str(<<"t", "e", "s", "t">>)

\* The timeout of the probe, in milliseconds.
ProbeTimeout == 5000

\* A mutant of IsAvailableReturns: a failed probe is passed on to the caller.
IsAvailableRethrows(p) == IF p.state = "fulfilled" THEN "true" ELSE "rejected"

\* try { return testResult !== null } catch { return false }: a value extract
\* resolves with is an object, never null.
IsAvailableReturns(p) == IF p.state = "fulfilled" THEN "true" ELSE "false"

\* isAvailable(), up to its await.
IsAvailable ==
    /\ available # "pending"
    /\ CallExtract(ProbeAddress, Num(ProbeTimeout))
    /\ configured' = Held
    /\ available' = "pending"
    /\ UNCHANGED <<prev, batchVars, served, recent, candidates, resolved, stage, toolVars>>

\* The probe has settled: isAvailable resolves.
IsAvailableResume ==
    /\ available = "pending"
    /\ promise.state \in {"fulfilled", "rejected"}
    /\ available' = IsAvailableReturns(promise)
    /\ UNCHANGED <<thrVars, callVars, obsVars, batchVars, served, recent, candidates,
                   resolved, stage, toolVars>>

-----------------------------------------------------------------------------
(* A backend process that serves one request after the other               *)

KeysOf(entries) == {entries[i].key : i \in 1..Len(entries)}

\* The last n elements of a sequence.
LastOf(seq, n) == IF Len(seq) > n THEN SubSeq(seq, Len(seq) - n + 1, Len(seq)) ELSE seq

\* The accesses remembered after key was accessed: the CacheCapacity keys
\* accessed last, the latest at the end, each with the thresholds of the request
\* that stored its result.
Accessed(log, key, arg) ==
    LET old == SelectSeq(log, LAMBDA e : e.key = key)
        others == SelectSeq(log, LAMBDA e : e.key # key)
        entry == IF old = <<>> THEN [key |-> key, storedUnder |-> arg] ELSE old[1]
    IN  LastOf(others \o <<entry>>, CacheCapacity)

\* The process answers the request extract sends for addr: a get on the Result
\* Cache, and on a miss stages 3-9 and a put.
BackendServe(addr) ==
    LET arg == ThresholdsArg
        key == CacheKey(addr, arg)
        hit == CacheHas(procCache, key)
        answer == BackendAnswer(procCache, addr, arg)
        after == IF hit THEN CacheTouch(procCache, key) ELSE CachePut(procCache, key, answer)
    IN  /\ served' = [valid |-> TRUE, address |-> addr, arg |-> arg, hit |-> hit,
                      answer |-> answer,
                      evicted |-> KeysOf(procCache) \ KeysOf(after)]
        /\ procCache' = after
        /\ recent' = Accessed(recent, key, arg)
        /\ UNCHANGED <<thrVars, address, timeoutMs, sent, backend, reply, timer, promise,
                       firstSettled, ranPipeline, strayProcs, strayTimers, obsVars,
                       batchVars, available, candidates, resolved, stage, toolVars>>

-----------------------------------------------------------------------------
(* batchExtract                                                            *)

\* The longest array batchExtract is called with.
MaxBatch == 2

\* The elements of such an array: two addresses, a string of white space and
\* a value that is no string.
BatchValues == {Str(<<"a">>), Str(<<"a", "a">>), Str(<<" ">>), JsNull}

BatchArrays == UNION {[1..n -> BatchValues] : n \in 0..MaxBatch}

Callbacks == {"absent", "returns", "throws"}

\* The head of the for loop with i = k: the promise resolves with results
\* when i reaches addresses.length, else extract is called for addresses[i].
LoopHead(k, addrs, option) ==
    IF k < Len(addrs)
    THEN /\ CallExtract(addrs[k + 1], option)
         /\ configured' = Held
         /\ batch' = "running"
    ELSE /\ batch' = "resolved"
         /\ UNCHANGED <<thrVars, callVars, configured>>

\* batchExtract(addrs, {timeout: option, onProgress, onError}), up to its first await.
BatchExtract(addrs, option, progress, error) ==
    /\ batch # "running"
    /\ promise.state # "pending"
    /\ addresses' = addrs
    /\ batchTimeout' = option
    /\ onProgress' = progress
    /\ onError' = error
    /\ idx' = 0
    /\ results' = <<>>
    /\ settlements' = <<>>
    /\ callbackLog' = <<>>
    /\ LoopHead(0, addrs, option)
    /\ UNCHANGED <<prev, extVars>>

\* The array after the catch block, when it ran: results.push(this.emptyResult(address))
AfterCatch(afterTry, caught, addr) ==
    IF caught THEN Append(afterTry, emptyResult(addr)) ELSE afterTry

\* A mutant of ProgressCurrent: the loop variable itself is passed.
ProgressCurrentZeroBased(i) == i

\* options.onProgress(i + 1, total)
ProgressCurrent(i) == i + 1

\* A mutant of Awaited: the loop goes on without the call having settled.
AwaitedAtOnce(p) == TRUE

\* await this.extract(address, options): the loop goes on when the call has settled.
Awaited(p) == p.state \in {"fulfilled", "rejected"}

\* The awaited extract call has settled: the rest of the loop body, then the
\* next turn of the loop up to its await.
BatchResume ==
    /\ batch = "running"
    /\ Awaited(promise)
    /\ LET addr == addresses[idx + 1]
           ok == promise.state = "fulfilled"
           progressCalled == ok /\ onProgress # "absent"
           caught == ~ok \/ (progressCalled /\ onProgress = "throws")
           errorCalled == caught /\ onError # "absent"
           afterTry == IF ok THEN Append(results, promise.value) ELSE results
           progressLog == IF progressCalled
                          THEN <<[cb |-> "onProgress", current |-> ProgressCurrent(idx),
                                  total |-> Len(addresses), address |-> addr]>>
                          ELSE <<>>
           errorLog == IF errorCalled
                       THEN <<[cb |-> "onError", current |-> idx + 1,
                               total |-> Len(addresses), address |-> addr]>>
                       ELSE <<>>
       IN  /\ settlements' = Append(settlements, promise)
           /\ results' = AfterCatch(afterTry, caught, addr)
           /\ callbackLog' = callbackLog \o progressLog \o errorLog
           /\ IF errorCalled /\ onError = "throws"
              THEN /\ batch' = "rejected"
                   /\ UNCHANGED <<idx, thrVars, callVars, configured>>
              ELSE /\ idx' = idx + 1
                   /\ LoopHead(idx + 1, addresses, batchTimeout)
    /\ UNCHANGED <<addresses, batchTimeout, onProgress, onError, prev, extVars>>

-----------------------------------------------------------------------------
(* Specifications                                                          *)

\* No extract call has been made.
NoCall ==
    /\ address = Undefined
    /\ timeoutMs = 0
    /\ sent = NoThresholdsArg
    /\ backend = "none"
    /\ reply = "none"
    /\ timer = "none"
    /\ promise = NoPromise
    /\ firstSettled = "none"
    /\ procCache = <<>>
    /\ ranPipeline = FALSE
    /\ strayProcs = 0
    /\ strayTimers = 0

NotConfigured == [set |-> FALSE, map |-> EmptyObject]

\* batchExtract has not been called.
NoBatch ==
    /\ addresses = <<>>
    /\ batchTimeout = Undefined
    /\ onProgress = "absent"
    /\ onError = "absent"
    /\ batch = "none"
    /\ idx = 0
    /\ results = <<>>
    /\ settlements = <<>>
    /\ callbackLog = <<>>

\* No request was served by a long-lived backend process.
NoServed == [valid |-> FALSE, address |-> Undefined, arg |-> NoThresholdsArg,
             hit |-> FALSE, answer |-> NoValue, evicted |-> {}]

\* Nothing of the geographic inference has happened.
NotPredicted ==
    /\ known = NothingKnown
    /\ predicted = <<>>

NoParse ==
    /\ tokens = <<>>
    /\ fsmState = "none"
    /\ position = 0
    /\ emitted = <<>>

NoEnvironment ==
    [python |-> "none", requirements |-> "none", pipUpgrade |-> "none", install |-> "none",
     userInstall |-> "none", spacyImport |-> "none", download |-> "none", verify |-> "none"]

\* findPython has not been called.
NoDetection ==
    /\ reported = <<>>
    /\ cmdIndex = 0
    /\ detected = "none"

\* The postinstall script has not run.
NoPostinstall ==
    /\ env = NoEnvironment
    /\ pc = "none"
    /\ exitStatus = "none"
    /\ depsInstalled = FALSE
    /\ stepsRun = <<>>

NoTools ==
    /\ NotPredicted
    /\ NoParse
    /\ NoDetection
    /\ NoPostinstall

\* Nothing but the calls of one extractor has happened.
NoExtras ==
    /\ served = NoServed
    /\ recent = <<>>
    /\ available = "none"
    /\ candidates = {}
    /\ resolved = NoResolution
    /\ stage = "none"
    /\ NoTools

NoPrev == [valid |-> FALSE, address |-> Undefined, configured |-> NotConfigured,
           value |-> NoValue]

\* A new extractor: no thresholds set.
NoThresholds ==
    /\ heap = [o \in ObjIds |-> EmptyObject]
    /\ confidenceThresholds = Null
    /\ setArg = Null
    /\ setOutcome = "none"
    /\ getReturned = "none"
    /\ lastAccepted = Null
    /\ peerThresholds = Null
    /\ peerReturned = "none"

\* The threshold calls alone, on a new extractor.
InitThresholds ==
    /\ NoThresholds
    /\ NoCall
    /\ configured = NotConfigured
    /\ prev = NoPrev
    /\ NoBatch
    /\ NoExtras

NextThresholds ==
    \/ \E o \in ObjIds : SetConfidenceThresholds(o)
    \/ GetConfidenceThresholds
    \/ \E o \in ObjIds, key \in Components, value \in ThresholdValues :
          CallerMutate(o, key, value)

SpecThresholds == InitThresholds /\ [][NextThresholds]_vars

\* extract calls, one after the other, on an extractor whose thresholds were
\* left unset or were set to any object before.
Init ==
    /\ \/ NoThresholds
       \/ /\ \E m \in StartingThresholdMaps : heap = [o \in ObjIds |-> m]
          /\ confidenceThresholds = "o1"
          /\ setArg = "o1"
          /\ setOutcome = "returned"
          /\ getReturned = "none"
          /\ lastAccepted = "o1"
          /\ peerThresholds = Null
          /\ peerReturned = "none"
    /\ NoCall
    /\ configured = NotConfigured
    /\ prev = NoPrev
    /\ NoBatch
    /\ NoExtras

Next ==
    \/ \E addr \in AddressValues, option \in TimeoutOptions :
          CallExtract(addr, option) /\ configured' = Held /\ UNCHANGED <<prev, batchVars, extVars>>
    \/ \E r \in Replies : BackendExit(r) /\ UNCHANGED <<obsVars, batchVars, extVars>>
    \/ TimerFire /\ UNCHANGED <<obsVars, batchVars, extVars>>
    \/ StrayProcExit /\ UNCHANGED <<obsVars, batchVars, extVars>>
    \/ StrayTimerFire /\ UNCHANGED <<obsVars, batchVars, extVars>>

Spec == Init /\ [][Next]_vars

\* The same address extracted again and again on one extractor, by a caller
\* that changes the thresholds of its object o1 between the calls and starts
\* a call once the process and the timer of the call before are gone.
RepeatAddresses == {Str(<<"a">>), Str(<<"a", "a">>)}

RepeatValues == {Undefined, Num(0), Num(50), Num(100)}

\* The next call, remembering the request and the result of the call it follows.
RepeatCall(addr) ==
    /\ backend # "running"
    /\ timer # "pending"
    /\ CallExtract(addr, Undefined)
    /\ configured' = Held
    /\ prev' = IF promise.state = "fulfilled" /\ reply = "json"
               THEN [valid |-> TRUE, address |-> address, configured |-> configured,
                     value |-> promise.value]
               ELSE NoPrev
    /\ UNCHANGED <<batchVars, extVars>>

InitRepeat ==
    /\ NoThresholds
    /\ NoCall
    /\ configured = NotConfigured
    /\ prev = NoPrev
    /\ NoBatch
    /\ NoExtras

NextRepeat ==
    \/ \E addr \in RepeatAddresses : RepeatCall(addr)
    \/ \E r \in Replies : BackendExit(r) /\ UNCHANGED <<obsVars, batchVars, extVars>>
    \/ TimerFire /\ UNCHANGED <<obsVars, batchVars, extVars>>
    \/ promise.state # "pending" /\ SetConfidenceThresholds("o1")
    \/ \E key \in Components, value \in RepeatValues :
          promise.state # "pending" /\ CallerMutate("o1", key, value)

SpecRepeat == InitRepeat /\ [][NextRepeat]_vars

\* One batchExtract call on a new extractor.
InitBatch ==
    /\ NoThresholds
    /\ NoCall
    /\ configured = NotConfigured
    /\ prev = NoPrev
    /\ NoBatch
    /\ NoExtras

NextBatch ==
    \/ \E addrs \in BatchArrays, option \in {Undefined, Num(5000)},
          progress \in Callbacks, error \in Callbacks :
          batch = "none" /\ BatchExtract(addrs, option, progress, error)
    \/ BatchResume
    \/ \E r \in Replies : BackendExit(r) /\ UNCHANGED <<obsVars, batchVars, extVars>>
    \/ TimerFire /\ UNCHANGED <<obsVars, batchVars, extVars>>
    \/ StrayProcExit /\ UNCHANGED <<obsVars, batchVars, extVars>>
    \/ StrayTimerFire /\ UNCHANGED <<obsVars, batchVars, extVars>>

SpecBatch == InitBatch /\ [][NextBatch]_vars

\* The arrays of the batch whose extractor is configured meanwhile: two addresses.
ConfiguredArrays == [1..2 -> RepeatAddresses]

\* One batchExtract call on an extractor whose caller calls
\* setConfidenceThresholds with one of its two objects while the batch awaits.
InitBatchConfigure ==
    /\ heap = [o \in ObjIds |-> IF o = "o1" THEN [c \in Components |-> Num(50)]
                                             ELSE [c \in Components |-> Num(100)]]
    /\ confidenceThresholds \in {Null, "o1"}
    /\ setArg = confidenceThresholds
    /\ setOutcome = IF confidenceThresholds = Null THEN "none" ELSE "returned"
    /\ getReturned = "none"
    /\ lastAccepted = confidenceThresholds
    /\ peerThresholds = Null
    /\ peerReturned = "none"
    /\ NoCall
    /\ configured = NotConfigured
    /\ prev = NoPrev
    /\ NoBatch
    /\ NoExtras

NextBatchConfigure ==
    \/ \E addrs \in ConfiguredArrays :
          batch = "none" /\ BatchExtract(addrs, Undefined, "absent", "absent")
    \/ BatchResume
    \/ \E r \in Replies : BackendExit(r) /\ UNCHANGED <<obsVars, batchVars, extVars>>
    \/ TimerFire /\ UNCHANGED <<obsVars, batchVars, extVars>>
    \/ StrayProcExit /\ UNCHANGED <<obsVars, batchVars, extVars>>
    \/ StrayTimerFire /\ UNCHANGED <<obsVars, batchVars, extVars>>
    \/ \E o \in ObjIds : batch = "running" /\ SetConfidenceThresholds(o)

SpecBatchConfigure == InitBatchConfigure /\ [][NextBatchConfigure]_vars

\* The values the caller writes into its objects between the calls on two extractors.
PeerValues == {Undefined, Num(50), Num(101)}

\* Threshold calls on two extractors of one program, in any order.
NextInstances ==
    \/ \E o \in ObjIds : SetConfidenceThresholds(o)
    \/ \E o \in ObjIds : PeerSetConfidenceThresholds(o)
    \/ GetConfidenceThresholds
    \/ PeerGetConfidenceThresholds
    \/ \E o \in ObjIds, key \in Components, value \in PeerValues :
          CallerMutate(o, key, value)

SpecInstances == InitThresholds /\ [][NextInstances]_vars

\* The most candidates the resolver is given.
MaxCandidates == 3

\* The candidates the extractors can produce for these places.
CandidateUniverse ==
    [component : {"district"}, value : Districts,
     confidence : {90, 100}, source : {"STRUCTURAL", "NER", "GAZETTEER"}]
    \cup
    [component : {"postal_code"}, value : PostalCodes,
     confidence : {100}, source : {"PATTERN", "NER"}]
    \cup
    [component : {"division"}, value : {DivisionOf(d) : d \in Districts},
     confidence : {100}, source : {"GAZETTEER"}]

RECURSIVE SetsUpTo(_, _)
SetsUpTo(universe, n) ==
    IF n = 0 THEN {{}}
    ELSE LET smaller == SetsUpTo(universe, n - 1)
         IN  smaller \cup {set \cup {k} : set \in smaller, k \in universe}

\* The Conflict Resolver on any set of candidates.
InitResolver ==
    /\ NoThresholds
    /\ NoCall
    /\ configured = NotConfigured
    /\ prev = NoPrev
    /\ NoBatch
    /\ served = NoServed
    /\ recent = <<>>
    /\ available = "none"
    /\ candidates \in SetsUpTo(CandidateUniverse, MaxCandidates)
    /\ resolved = NoResolution
    /\ stage = "given"
    /\ NoTools

NextResolver ==
    \/ Resolve
    \/ Validate

SpecResolver == InitResolver /\ [][NextResolver]_vars

\* predict_postal_code on any names known at the four levels.
InitPredict ==
    /\ NoThresholds
    /\ NoCall
    /\ configured = NotConfigured
    /\ prev = NoPrev
    /\ NoBatch
    /\ served = NoServed
    /\ recent = <<>>
    /\ available = "none"
    /\ candidates = {}
    /\ resolved = NoResolution
    /\ stage = "none"
    /\ known \in [Levels -> UNION {KnownNames(level) : level \in Levels}]
    /\ \A level \in Levels : known[level] \in KnownNames(level)
    /\ predicted = <<>>
    /\ NoParse
    /\ NoDetection
    /\ NoPostinstall

NextPredict == PredictPostalCode

SpecPredict == InitPredict /\ [][NextPredict]_vars

\* The longest token stream the parser is given.
MaxTokens == 3

RECURSIVE StreamsUpTo(_)
StreamsUpTo(n) ==
    IF n = 0 THEN {<<>>}
    ELSE StreamsUpTo(n - 1) \cup {Append(stream, type) : stream \in StreamsUpTo(n - 1), type \in TokenTypes}

\* The FSM parser on any token stream; the parse runs on until the terminal state.
InitFsm ==
    /\ NoThresholds
    /\ NoCall
    /\ configured = NotConfigured
    /\ prev = NoPrev
    /\ NoBatch
    /\ served = NoServed
    /\ recent = <<>>
    /\ available = "none"
    /\ candidates = {}
    /\ resolved = NoResolution
    /\ stage = "none"
    /\ NotPredicted
    /\ tokens \in StreamsUpTo(MaxTokens)
    /\ fsmState = "START"
    /\ position = 0
    /\ emitted = <<>>
    /\ NoDetection
    /\ NoPostinstall

NextFsm ==
    \/ FsmStart
    \/ FsmToken
    \/ FsmEndOfStream

SpecFsm == InitFsm /\ [][NextFsm]_vars /\ WF_vars(NextFsm)

\* findPython on a machine on which the three commands report anything.
InitFindPython ==
    /\ NoThresholds
    /\ NoCall
    /\ configured = NotConfigured
    /\ prev = NoPrev
    /\ NoBatch
    /\ served = NoServed
    /\ recent = <<>>
    /\ available = "none"
    /\ candidates = {}
    /\ resolved = NoResolution
    /\ stage = "none"
    /\ NotPredicted
    /\ NoParse
    /\ reported \in [1..Len(PythonCommands) -> Reports]
    /\ cmdIndex = 1
    /\ detected = "pending"
    /\ NoPostinstall

NextFindPython ==
    \/ FindPythonTry
    \/ FindPythonReturnsNull

SpecFindPython == InitFindPython /\ [][NextFindPython]_vars

\* The postinstall script on any machine; main runs on until it ends.
InitPostinstall ==
    /\ NoThresholds
    /\ NoCall
    /\ configured = NotConfigured
    /\ prev = NoPrev
    /\ NoBatch
    /\ served = NoServed
    /\ recent = <<>>
    /\ available = "none"
    /\ candidates = {}
    /\ resolved = NoResolution
    /\ stage = "none"
    /\ NotPredicted
    /\ NoParse
    /\ NoDetection
    /\ env \in Environments
    /\ pc = "findPython"
    /\ exitStatus = "running"
    /\ depsInstalled = FALSE
    /\ stepsRun = <<>>

NextPostinstall ==
    \/ PostFindPython
    \/ PostRequirements
    \/ PostPipUpgrade
    \/ PostInstall
    \/ PostUserInstall
    \/ PostDownload
    \/ PostVerify
    \/ PostReport

SpecPostinstall == InitPostinstall /\ [][NextPostinstall]_vars /\ WF_vars(NextPostinstall)

\* isAvailable calls, one after the other.
NextAvailable ==
    \/ IsAvailable
    \/ IsAvailableResume
    \/ \E r \in Replies : BackendExit(r) /\ UNCHANGED <<obsVars, batchVars, extVars>>
    \/ TimerFire /\ UNCHANGED <<obsVars, batchVars, extVars>>
    \/ StrayProcExit /\ UNCHANGED <<obsVars, batchVars, extVars>>
    \/ StrayTimerFire /\ UNCHANGED <<obsVars, batchVars, extVars>>

SpecAvailable == Init /\ [][NextAvailable]_vars

\* The addresses of the requests to the long-lived process; the last two have
\* the same normalized form.
ServedAddresses == {Str(<<"a", "a">>), Str(<<"a">>), Str(<<"a", " ">>)}

\* The threshold objects the caller switches between.
ServedMaps == [Components -> {Undefined, Num(50)}]

\* Requests to one backend process that stays alive, from an extractor whose
\* thresholds the caller changes in between.
InitCache ==
    /\ heap \in [ObjIds -> ServedMaps]
    /\ confidenceThresholds = Null
    /\ setArg = Null
    /\ setOutcome = "none"
    /\ getReturned = "none"
    /\ lastAccepted = Null
    /\ peerThresholds = Null
    /\ peerReturned = "none"
    /\ NoCall
    /\ configured = NotConfigured
    /\ prev = NoPrev
    /\ NoBatch
    /\ NoExtras

NextCache ==
    \/ \E o \in ObjIds : SetConfidenceThresholds(o)
    \/ \E addr \in ServedAddresses : BackendServe(addr)

SpecCache == InitCache /\ [][NextCache]_vars

-----------------------------------------------------------------------------
(* Claims about the thresholds                                             *)

\* A supplied value that is a number of [0,1].
InUnitInterval(value) == value.t = "number" /\ 0 <= value.n /\ value.n <= 100

\* A supplied value that is not in [0,1].
OutsideUnitInterval(value) == value # Undefined /\ ~InUnitInterval(value)

\* C6: setConfidenceThresholds(t) with a value outside [0,1] throws and leaves
\* the held thresholds as they were; with every value in [0,1] it returns and
\* the held thresholds are exactly t.
C6_SetValidatesBeforeApplying ==
    [][(\E o \in ObjIds : SetConfidenceThresholds(o)) =>
        LET t == heap[setArg'] IN
        IF \E key \in Components : OutsideUnitInterval(t[key])
        THEN setOutcome' = "threw" /\ Held' = Held
        ELSE setOutcome' = "returned" /\ Held' = [set |-> TRUE, map |-> t]]_vars

\* Every threshold the extractor holds is a number of [0,1].
HeldInRange ==
    \A key \in Components :
        Held.map[key] = Undefined \/ InUnitInterval(Held.map[key])

\* C7: every held threshold lies in [0,1] in every reachable state, and the
\* held thresholds change only in a setConfidenceThresholds call that returns.
C7_HeldInRangeAndOwned ==
    /\ []HeldInRange
    /\ [][Held' # Held =>
            \E o \in ObjIds : SetConfidenceThresholds(o) /\ setOutcome' = "returned"]_vars

\* C16: getConfidenceThresholds returns null until a setConfidenceThresholds
\* call has returned, and from then on the map of the last call that returned:
\* that call replaced the whole map (nothing of an earlier map is merged into
\* it or into any other object), and null is never returned again.
C16_GetReturnsTheLastAcceptedMap ==
    /\ [][GetConfidenceThresholds => getReturned' = lastAccepted]_vars
    /\ [][(\E o \in ObjIds : SetConfidenceThresholds(o)) =>
            /\ heap' = heap
            /\ setOutcome' = "returned" =>
                  /\ lastAccepted' = setArg'
                  /\ Held' = [set |-> TRUE, map |-> heap[setArg']]
            /\ setOutcome' = "threw" => lastAccepted' = lastAccepted]_vars
    /\ [](lastAccepted # Null => Held.set)

\* A map was returned after a later call with another object had thrown.
C16_ReturnedAfterRejectedSetWitness ==
    /\ getReturned \in ObjIds
    /\ getReturned = lastAccepted
    /\ setOutcome = "threw"
    /\ setArg # getReturned

\* What the second extractor would pass to the backend.
PeerThresholdsArg ==
    IF peerThresholds # Null
    THEN [present |-> TRUE, json |-> JsonStringify(heap[peerThresholds])]
    ELSE NoThresholdsArg

\* C15: every extractor has its own threshold map: a setConfidenceThresholds
\* call on one of two extractors changes neither what the other returns from
\* getConfidenceThresholds nor what the other passes to the backend.
C15_ThresholdsPerInstance ==
    /\ [][(\E o \in ObjIds : SetConfidenceThresholds(o)) =>
            /\ peerThresholds' = peerThresholds
            /\ PeerHeld' = PeerHeld
            /\ PeerThresholdsArg' = PeerThresholdsArg]_vars
    /\ [][(\E o \in ObjIds : PeerSetConfidenceThresholds(o)) =>
            /\ confidenceThresholds' = confidenceThresholds
            /\ Held' = Held
            /\ ThresholdsArg' = ThresholdsArg]_vars

\* Both extractors hold thresholds, and not the same ones.
C15_TwoConfigurationsWitness ==
    /\ Held.set /\ PeerHeld.set
    /\ confidenceThresholds # peerThresholds
    /\ Held.map # PeerHeld.map
    /\ getReturned = confidenceThresholds
    /\ peerReturned = peerThresholds

-----------------------------------------------------------------------------
(* Claims about the Result Cache                                           *)

\* The components with their confidences, and the overall confidence.
Findings(result) ==
    [components |-> result.components, overall_confidence |-> result.overall_confidence]

\* C11: the components and confidences of a cache hit are those of a fresh
\* extraction of the same input under the thresholds of the request, and the
\* result it returns was stored under those same thresholds.
C11_CacheEquivalence ==
    (served.valid /\ served.hit) =>
        /\ served.answer.cached = "true"
        /\ Findings(served.answer) = Findings(PipelineResult(served.address, served.arg))
        /\ recent[Len(recent)].storedUnder = served.arg

\* A hit for an address whose result is also stored under other thresholds.
C11_HitAfterThresholdChangeWitness ==
    /\ served.valid /\ served.hit
    /\ \E i \in 1..Len(procCache) :
          /\ procCache[i].key[1] = Normalize(served.address.s)
          /\ procCache[i].key[2] # served.arg
          /\ Findings(procCache[i].value) # Findings(served.answer)

\* C12: the cache never holds more than CacheCapacity entries, and what it
\* holds are the keys accessed last (by a hit or by a put): on overflow the
\* key that goes is the least recently accessed one.
C12_LruBoundAndEviction ==
    /\ [](Len(procCache) <= CacheCapacity /\ KeysOf(procCache) = KeysOf(recent))
    /\ [][KeysOf(procCache) \ KeysOf(procCache') # {} =>
            /\ Len(procCache) = CacheCapacity
            /\ KeysOf(procCache) \ KeysOf(procCache') = {recent[1].key}
            /\ ~served'.hit]_vars

\* A put on the full cache has made an entry go.
C12_EvictionWitness ==
    /\ served.valid /\ ~served.hit
    /\ served.evicted # {}
    /\ Len(procCache) = CacheCapacity

-----------------------------------------------------------------------------
(* Claims about the Conflict Resolver *)

\* The candidates the resolution works on: the given ones and the inferred ones.
Considered == candidates \cup Inferred(candidates)

Percent == 0..100

\* C17: the overall confidence and the confidence of every component of a
\* result lie between 0 and 1 (0 and 100 in hundredths); the aggregate score
\* of a value never exceeds 1, is never below its unboosted score, and does
\* not fall when one more candidate proposes the value; the agreement boost
\* does not decrease in the number of distinct agreeing sources.
C17_ConfidenceBoundsAndBoost ==
    /\ \A k \in candidates : k.confidence \in Percent
    /\ resolved.overall \in Percent
    /\ \A c \in ResolverComponents : resolved.confidence[c] \in Percent
    /\ LET cands == Considered
       IN  \A c \in ResolverComponents : \A v \in ValuesFor(cands, c) :
              LET score == AggregateScore(cands, c, v)
              IN  /\ score \in Percent
                  /\ score >= BaseScore(cands, c, v)
                  /\ \A k \in Proposing(cands, c, v) :
                        Proposing(cands, c, v) # {k} =>
                            AggregateScore(cands \ {k}, c, v) <= score
    /\ \A n \in 1..Cardinality(Sources) : \A m \in n..Cardinality(Sources) :
          AgreementBoost(n) <= AgreementBoost(m)

\* Two sources agree on a district, the boosted score passes 1 and is capped.
C17_CappedBoostWitness ==
    /\ stage = "resolved"
    /\ \E v \in ValuesFor(Considered, "district") :
          /\ Cardinality(SourcesOf(Considered, "district", v)) >= 2
          /\ BaseScore(Considered, "district", v)
               + AgreementBoost(Cardinality(SourcesOf(Considered, "district", v))) > 100
          /\ resolved.values["district"] = v
          /\ resolved.confidence["district"] = 100

\* The values of a component whose score is within epsilon of the best score.
NearTheTop(cands, c) ==
    LET best == Max({AggregateScore(cands, c, v) : v \in ValuesFor(cands, c)})
    IN  {v \in ValuesFor(cands, c) : best - AggregateScore(cands, c, v) <= Epsilon}

\* A near-tie of the two values is among the conflicts, with both values and their sources.
NearTieRecorded(cands, c, w, u) ==
    \E i \in 1..Len(resolved.conflicts) :
        /\ resolved.conflicts[i].kind = "near-tie"
        /\ resolved.conflicts[i].about = {c}
        /\ resolved.conflicts[i].values = {w, u}
        /\ resolved.conflicts[i].sources = SourcesOf(cands, c, w) \cup SourcesOf(cands, c, u)

Geographic(conflicts) == SelectSeq(conflicts, LAMBDA conflict : conflict.kind = "geographic")

\* C20: validate_consistency after the resolution only annotates: the
\* contradictions it finds are appended to the conflict list, the conflicts
\* recorded before stay, and every value chosen before is the same after.
C20_ValidationOnlyAnnotates ==
    [][Validate =>
          /\ resolved'.values = resolved.values
          /\ resolved'.conflicts = resolved.conflicts \o ValidateConsistency(resolved.values)
          /\ \A c \in ResolverComponents :
                resolved.values[c] # Unset => resolved'.values[c] = resolved.values[c]
          /\ Len(Geographic(resolved'.conflicts)) =
                (IF /\ resolved.values["postal_code"] # Unset
                    /\ resolved.values["district"] # Unset
                    /\ DistrictOfPostal(resolved.values["postal_code"]) # resolved.values["district"]
                 THEN 1 ELSE 0)
                + (IF /\ resolved.values["district"] # Unset
                      /\ resolved.values["division"] # Unset
                      /\ DivisionOf(resolved.values["district"]) # resolved.values["division"]
                   THEN 1 ELSE 0)]_vars

\* A postal code of another district than the one chosen: after the
\* validation both are still there and the contradiction is recorded.
C20_ContradictionKeptWitness ==
    /\ stage = "validated"
    /\ resolved.values["district"] # Unset
    /\ resolved.values["postal_code"] # Unset
    /\ DistrictOfPostal(resolved.values["postal_code"]) # resolved.values["district"]
    /\ resolved.values = Resolution(candidates).values
    /\ Len(Geographic(resolved.conflicts)) >= 1

\* The values a component of a result can have.
ComponentValues == Districts \cup {DivisionOf(d) : d \in Districts} \cup PostalCodes \cup {Unset}

\* C21: the resolver never raises: on every candidate set the resolution is
\* defined and is the result the resolver leaves, and so is the validation
\* after it, also when the evidence is contradictory; on the empty candidate
\* set every component is unset, with confidence 0, and the overall
\* confidence is 0.
C21_ResolverNeverRaises ==
    /\ LET result == Resolution(candidates)
           found == ValidateConsistency(result.values)
       IN  /\ \A c \in ResolverComponents :
                 /\ result.values[c] \in ComponentValues
                 /\ result.confidence[c] \in Percent
           /\ result.overall \in Percent
           /\ \A i \in 1..Len(result.conflicts) : result.conflicts[i].kind = "near-tie"
           /\ \A i \in 1..Len(found) : found[i].kind = "geographic"
           /\ stage = "resolved" => resolved = result
           /\ stage = "validated" =>
                 /\ resolved.values = result.values
                 /\ resolved.conflicts = result.conflicts \o found
    /\ stage \in {"resolved", "validated"} =>
          /\ \A c \in ResolverComponents :
                /\ resolved.values[c] \in ComponentValues
                /\ resolved.confidence[c] \in Percent
          /\ resolved.overall \in Percent
          /\ candidates = {} =>
                /\ \A c \in ResolverComponents :
                      resolved.values[c] = Unset /\ resolved.confidence[c] = 0
                /\ resolved.overall = 0

\* The empty candidate set went through the resolution and the validation.
C21_EmptyCandidatesWitness ==
    /\ stage = "validated"
    /\ candidates = {}
    /\ resolved.overall = 0
    /\ resolved.conflicts = <<>>

-----------------------------------------------------------------------------
(* Claims about the Geographic Knowledge Base *)

\* The levels whose match for the known names is a single postal code.
UniqueLevels == {level \in Levels : Cardinality(CodesAt(level, known)) = 1}

\* The place of a level in the order upazila, union, village, district.
Priority(level) ==
    CHOOSE i \in 1..4 : <<"upazila", "union", "village", "district">>[i] = level

\* C22: predict_postal_code returns the postal code of the first level, in
\* the order upazila, union, village, district, whose match is a unique
\* postal code, with the confidence of that level (0.95, 0.90, 0.85, 0.60);
\* no lower level is used when a higher one yields a unique code, and none
\* is returned when no level does.
C22_FirstUniqueLevelWins ==
    predicted # <<>> =>
        /\ UniqueLevels = {} => predicted[1] = NoPrediction
        /\ UniqueLevels # {} =>
              /\ predicted[1].level \in UniqueLevels
              /\ \A level \in UniqueLevels : Priority(predicted[1].level) <= Priority(level)
              /\ CodesAt(predicted[1].level, known) = {predicted[1].postal_code}
              /\ predicted[1].confidence =
                    (CASE predicted[1].level = "upazila" -> 95
                       [] predicted[1].level = "union" -> 90
                       [] predicted[1].level = "village" -> 85
                       [] predicted[1].level = "district" -> 60)

\* The upazila known is ambiguous, union and district both yield a unique
\* code: the code of the union is returned.
C22_UnionBeforeDistrictWitness ==
    /\ predicted # <<>>
    /\ Cardinality(CodesAt("upazila", known)) = 2
    /\ {"union", "district"} \subseteq UniqueLevels
    /\ predicted[1].level = "union"
    /\ predicted[1].confidence = 90

-----------------------------------------------------------------------------
(* Claims about the structural parser *)

-----------------------------------------------------------------------------
(* Claims about the detection of Python and the postinstall script *)

\* A report of a version that is at least 3.9, major.minor read as a version number.
AtLeast39(report) ==
    /\ report.kind = "version"
    /\ report.major > 3 \/ (report.major = 3 /\ report.minor >= 9)

\* C25: findPython returns the first of python3, python, py whose reported
\* version is at least 3.9, and null when there is none; a command that
\* cannot be run is passed over.
C25_FirstCommandAtLeast39 ==
    detected \notin {"none", "pending"} =>
        LET good == {i \in 1..Len(PythonCommands) : AtLeast39(reported[i])}
        IN  IF good = {} THEN detected = Null
            ELSE detected = PythonCommands[CHOOSE i \in good : \A j \in good : i <= j]

\* The steps main has run.
StepsRun == {stepsRun[i] : i \in 1..Len(stepsRun)}

\* The installation of the dependencies succeeds on this machine.
InstallSucceeds ==
    /\ env.python = "found"
    /\ env.requirements = "present"
    /\ env.install = "ok" \/ (env.install = "permission" /\ env.userInstall = "ok")

\* C26: the postinstall script never fails the npm install: whatever the
\* steps do, main ends, and it ends by returning or by process.exit(0),
\* never by an exception or a non-zero exit code; the model download and
\* the verification run only after the dependencies were installed.
C26_PostinstallNeverFails ==
    /\ <>[](pc = "done" /\ exitStatus \in {"returned", "exit 0"})
    /\ [](exitStatus \in {"running", "returned", "exit 0"})
    /\ []((StepsRun \cap {"download", "verify"} # {}) => (depsInstalled /\ InstallSucceeds))
    /\ []((pc = "done" /\ InstallSucceeds) => {"download", "verify"} \subseteq StepsRun)

\* The installation failed on a permission and again with --user, main still returned.
C26_BothInstallationsFailedWitness ==
    /\ pc = "done"
    /\ exitStatus = "returned"
    /\ env.install = "permission"
    /\ env.userInstall = "throws"
    /\ "userInstall" \in StepsRun
    /\ "download" \notin StepsRun

-----------------------------------------------------------------------------
(* Claims about batchExtract                                               *)

BatchDone == batch \in {"resolved", "rejected"}

\* The result the slot of addresses[j] holds when no callback interferes: what
\* extract returned for it, or the empty result for it when extract failed.
SlotFor(j) ==
    IF settlements[j].state = "fulfilled"
    THEN settlements[j].value
    ELSE emptyResult(addresses[j])

EveryAddressExtracted == Len(settlements) = Len(addresses)

SlotsInInputOrder ==
    /\ Len(results) = Len(addresses)
    /\ \A j \in 1..Len(results) : j <= Len(settlements) /\ results[j] = SlotFor(j)

\* C1: batchExtract(addresses) with N addresses ends by resolving with an
\* array of exactly N results.
C1_BatchResolvesWithNResults ==
    BatchDone => batch = "resolved" /\ Len(results) = Len(addresses)

\* C2: when the extraction of addresses[i] fails, the batch is not aborted:
\* slot i holds the empty result for addresses[i], every later address is
\* still extracted, and the slot of every index j is the result for addresses[j].
C2_FailureIsIsolated ==
    (BatchDone /\ \E i \in 1..Len(settlements) : settlements[i].state = "rejected")
        => /\ batch = "resolved"
           /\ EveryAddressExtracted
           /\ SlotsInInputOrder

\* C3: the callbacks never alter the batch: whether onProgress and onError are
\* absent, return or throw, the batch resolves, every address is extracted
\* and the results are the ones the extractions alone decide.
C3_CallbacksDoNotAlterTheBatch ==
    BatchDone => /\ batch = "resolved"
                 /\ EveryAddressExtracted
                 /\ results = [j \in 1..Len(addresses) |-> SlotFor(j)]

\* The extract call of addresses[k] is started by this step.
BatchCallStarted(k) ==
    /\ batch' = "running"
    /\ idx' = k
    /\ idx # k \/ batch # "running"

\* C24: batchExtract iterates sequentially: the call for an address is
\* started only when the calls of all addresses before it have settled, so
\* the call of the loop variable is the only one that can be pending, and
\* the addresses are taken in the order of the array.
C24_BatchIsSequential ==
    /\ [](batch = "running" =>
            /\ idx < Len(addresses)
            /\ Len(settlements) = idx
            /\ address = addresses[idx + 1])
    /\ [](\A i \in 1..Len(settlements) : settlements[i].state \in {"fulfilled", "rejected"})
    /\ [][\A k \in 1..MaxBatch :
            BatchCallStarted(k) =>
                /\ idx = k - 1
                /\ promise.state \in {"fulfilled", "rejected"}
                /\ settlements' = Append(settlements, promise)
                /\ address' = addresses[k + 1]]_vars

\* The first call of a batch ended by its timer, the second one is pending.
C24_SecondAfterFirstWitness ==
    /\ batch = "running"
    /\ idx = 1
    /\ Len(settlements) = 1
    /\ settlements[1].state = "rejected"
    /\ promise.state = "pending"

\* The processes started by the calls made so far that are still running.
RunningProcesses == strayProcs + (IF backend = "running" THEN 1 ELSE 0)

\* C27: during a batchExtract call at most one backend process started by the
\* batch is running: the process of an address has ended before the process
\* of the next address is started, also after a timeout.
C27_OneProcessPerBatch ==
    /\ batch = "running" => RunningProcesses <= 1
    /\ batch \in {"resolved", "rejected"} => strayProcs = 0

\* C29: with callbacks that return normally exactly one callback is called
\* per address, in the order of the addresses and before the next address is
\* started: onProgress(i + 1, N) exactly when the extraction of addresses[i]
\* succeeded, onError(addresses[i], error) exactly when it failed; the values
\* of current passed to onProgress increase strictly and never exceed N.
C29_OneCallbackPerAddress ==
    (onProgress = "returns" /\ onError = "returns") =>
        /\ Len(callbackLog) = Len(settlements)
        /\ batch = "running" => Len(callbackLog) = idx
        /\ batch = "resolved" => Len(callbackLog) = Len(addresses)
        /\ \A i \in 1..Len(callbackLog) :
              /\ callbackLog[i].current = i
              /\ callbackLog[i].current <= Len(addresses)
              /\ callbackLog[i].total = Len(addresses)
              /\ callbackLog[i].address = addresses[i]
              /\ callbackLog[i].cb = "onProgress" <=> settlements[i].state = "fulfilled"
              /\ callbackLog[i].cb = "onError" <=> settlements[i].state = "rejected"
        /\ \A i, j \in 1..Len(callbackLog) :
              (i < j /\ callbackLog[i].cb = "onProgress" /\ callbackLog[j].cb = "onProgress")
                  => callbackLog[i].current < callbackLog[j].current

\* A batch of two: the first address failed, the second succeeded.
C29_ErrorThenProgressWitness ==
    /\ onProgress = "returns" /\ onError = "returns"
    /\ batch = "resolved"
    /\ Len(callbackLog) = 2
    /\ callbackLog[1].cb = "onError"
    /\ callbackLog[2].cb = "onProgress"
    /\ callbackLog[2].current = 2

\* C28: all addresses of one batchExtract call are extracted under the
\* thresholds the extractor held when batchExtract was called: the call of
\* every further address is made under the thresholds of the call before it
\* and passes the same --thresholds argument, whatever setConfidenceThresholds
\* did meanwhile.
C28_BatchUnderOneConfiguration ==
    [][\A k \in 1..MaxBatch :
          BatchCallStarted(k) =>
              /\ configured' = configured
              /\ sent' = sent]_vars

-----------------------------------------------------------------------------
(* Claims about one extract call                                           *)

\* A step that is a new extract call: a call leaves its argument in address
\* and the timeout it runs with in timeoutMs.
NewCall == CallExtract(address', Num(timeoutMs'))

\* The first of the process and the timer has decided the call.
DecidedByTheFirst ==
    /\ (firstSettled = "none" /\ backend # "none") => promise.state = "pending"
    /\ firstSettled = "timer" =>
          /\ promise.state = "rejected"
          /\ promise.error.kind = "timeout"
          /\ promise.error.ms = timeoutMs
          /\ promise.value = NoValue
    /\ firstSettled = "backend" =>
          IF reply = "json"
          THEN /\ promise.state = "fulfilled"
               /\ promise.value.original_address = address
               /\ promise.value.cached # "absent"
          ELSE /\ promise.state = "rejected"
               /\ promise.error.kind = "backend"

\* C4: a call with a timeout is decided by whichever of its process and its
\* timer settles first, and it settles once: after the timer fired first the
\* call stays rejected with the timeout error whatever the process prints
\* later; after the process settled first the timer changes nothing.
C4_FirstSettlementWins ==
    /\ []DecidedByTheFirst
    /\ [][(promise.state \in {"fulfilled", "rejected"} /\ promise' # promise) => NewCall]_vars

\* The timer fired first and the process printed a result afterwards.
C4_LateResultWitness ==
    /\ firstSettled = "timer"
    /\ backend = "exited"
    /\ reply = "json"
    /\ promise.state = "rejected"

\* An input of extract that is no address: not a string, or a string of
\* nothing but white space.
NotAnAddress(addr) ==
    addr.t # "string" \/ \A i \in 1..Len(addr.s) : addr.s[i] = " "

\* C5: extract on an empty or white-space string, null, undefined or a value
\* that is no string starts no process and no timer and resolves with the
\* empty result: no components, overall_confidence 0, extraction_time_ms 0.
C5_NoAddressShortCircuits ==
    (promise.state # "none" /\ NotAnAddress(address)) =>
        /\ backend = "none"
        /\ timer = "none"
        /\ promise.state = "fulfilled"
        /\ promise.value.components = NoComponents
        /\ promise.value.overall_confidence = 0
        /\ promise.value.extraction_time_ms = 0

\* extract was called with a string of white space.
C5_WhitespaceWitness ==
    /\ address = Str(<<" ">>)
    /\ promise.state = "fulfilled"
    /\ backend = "none"

\* The threshold configured for a component when the current call was made:
\* the number the caller set for it, the default when the caller set none.
ConfiguredThreshold(c) ==
    IF configured.set /\ configured.map[c].t = "number"
    THEN configured.map[c].n
    ELSE DefaultThreshold(c)

\* C8: a result holds no component whose confidence is below the threshold
\* configured for that component when the request was made.
C8_NoComponentBelowThreshold ==
    promise.state = "fulfilled" =>
        \A c \in DOMAIN promise.value.components :
            promise.value.components[c] >= ConfiguredThreshold(c)

\* A result holds an area that the caller's threshold lets through and the
\* default would not.
C8_CallerThresholdWitness ==
    /\ promise.state = "fulfilled"
    /\ "area" \in DOMAIN promise.value.components
    /\ promise.value.components["area"] < DefaultAreaThreshold
    /\ promise.value.components["area"] >= ConfiguredThreshold("area")

MalformedReplies == {"empty", "nojson", "badjson"}

\* C13: a malformed reply of the backend (no output, no JSON object, JSON that
\* does not parse) rejects extract with the error kind of a backend that could
\* not be run, and the error carries nothing of the JSON parser's own text.
C13_MalformedReplyIsBackendFailure ==
    (firstSettled = "backend" /\ reply \in MalformedReplies) =>
        /\ promise.state = "rejected"
        /\ promise.error.kind = "backend"
        /\ \A i \in 1..Len(promise.error.message) :
              promise.error.message[i] # JsonParseErrorText

\* C14: isAvailable never rejects; it resolves to true when its probe (extract
\* of 'test' with a timeout of 5000 ms) yielded a result and to false when the
\* probe failed, whatever the reason.
C14_IsAvailableIsABoolean ==
    /\ available # "rejected"
    /\ available \in {"true", "false"} =>
          /\ address = ProbeAddress
          /\ timeoutMs = ProbeTimeout
          /\ available = "true" <=> promise.state = "fulfilled"
          /\ available = "false" <=> promise.state = "rejected"

\* The probe timed out and isAvailable resolved to false.
C14_TimedOutProbeWitness ==
    /\ available = "false"
    /\ promise.error.kind = "timeout"
    /\ promise.error.ms = ProbeTimeout

\* C30: when the backend run of a call settles before the timeout, the timer
\* of the call is cancelled: once the promise has settled that way, no timer
\* of the call is pending.
C30_TimerCancelledOnSettle ==
    (promise.state \in {"fulfilled", "rejected"} /\ firstSettled = "backend") =>
        timer # "pending"

-----------------------------------------------------------------------------
(* Claims about repeated extraction                                        *)

\* The threshold of a component under the thresholds h of the extractor.
ThresholdUnder(h, c) ==
    IF h.set /\ h.map[c].t = "number" THEN h.map[c].n ELSE DefaultThreshold(c)

\* The current call got a result from its process.
GotResult == promise.state = "fulfilled" /\ reply = "json"

\* The current call repeats the address of the call before, with the threshold
\* of component c raised and the other thresholds as they were.
RaisedOnly(c) ==
    /\ prev.valid
    /\ GotResult
    /\ prev.address = address
    /\ ThresholdUnder(prev.configured, c) < ThresholdUnder(configured, c)
    /\ \A d \in Components \ {c} :
          ThresholdUnder(prev.configured, d) = ThresholdUnder(configured, d)

\* C9: for a fixed input, after one component's threshold is raised and the
\* others are left alone, that component is removed or unchanged, never added,
\* and the other components are as before: the components returned are a
\* subset of those returned under the lower threshold.
C9_ThresholdMonotonicity ==
    \A c \in Components :
        RaisedOnly(c) =>
            LET before == prev.value.components
                after == promise.value.components
            IN  /\ DOMAIN after \subseteq DOMAIN before
                /\ \A d \in DOMAIN after : after[d] = before[d]
                /\ \A d \in DOMAIN before \ {c} : d \in DOMAIN after

\* The area threshold was raised and the area, returned before, is gone.
C9_RemovedWitness ==
    /\ RaisedOnly("area")
    /\ "area" \in DOMAIN prev.value.components
    /\ "area" \notin DOMAIN promise.value.components
    /\ "postal_code" \in DOMAIN promise.value.components

\* C10: when the same address is extracted twice on one extractor with the
\* thresholds unchanged, the second request is a cache hit: its result is the
\* stored one, marked cached, and stages 3-9 did not run for it.
C10_RepeatIsCacheHit ==
    (prev.valid /\ GotResult /\ prev.address = address /\ prev.configured = configured) =>
        /\ promise.value.cached = "true"
        /\ ~ranPipeline
        /\ promise.value.components = prev.value.components

=============================================================================
